---- MODULE Spec2Model ----
(***************************************************************************)
(* Model of the viam-chess generic service (package viamchess): the        *)
(* DoCommand handler with its lock and deferred homing, the manual-move    *)
(* and auto-play loops, makeAMove with the persisted FEN file, and the     *)
(* movePiece pick-and-place state machine with its grasp-retry loop.       *)
(* Every external call (switch, gripper, arm, motion service, camera,      *)
(* engine, file) is one step whose outcome is chosen by the environment.   *)
(***************************************************************************)
EXTENDS Integers, Naturals, Sequences, FiniteSets, Bags, TLC

\* ---------------------------------------------------------------- bounds
\* number of concurrent DoCommand callers
NumProcs == 2
\* largest repeat count (Move.N) and play count (Go) a command carries
MaxCount == 2
\* highest peak height a capture reports for an occupied square
MaxPeakZ == 35
\* number of moves after which the game has no further move
MaxPly == 2
\* largest number of points in the cloud of one region
MaxPoints == 12

\* ------------------------------------------------------- program constants
safeZ == 200
\* fixed deposit height used when to == "-"
discardZ == 300
\* amount useZ is lowered by after an unverified grasp
graspStep == 10
\* lowest height the retry loop lowers useZ to
floorZ == 0
\* aperture below which a reported grasp is not believed
minAperture == 20
\* piece finder: depth of the band below the highest point of a region
minPieceSize == 20
\* piece finder: count a region must exceed to hold a piece
minPoints == 10
\* piece finder: brightness a white piece exceeds
whiteAbove == 128

Procs == 1..NumProcs

\* ------------------------------------------------------------ strings
\* Go strings are modelled as sequences of one-character strings.
HasPrefix(s, prefix) ==
    /\ Len(prefix) <= Len(s)
    /\ SubSeq(s, 1, Len(prefix)) = prefix

HasSuffix(s, suffix) ==
    /\ Len(suffix) <= Len(s)
    /\ SubSeq(s, Len(s) - Len(suffix) + 1, Len(s)) = suffix

DASH == <<"-">>
EmptySuffix == <<"-", "0">>
NoStr == <<>>

e2 == <<"e", "2">>
e4 == <<"e", "4">>
BoardSquares == {e2, e4}

\* ------------------------------------------------------------ captures
Vec(a, b, c) == [X |-> a, Y |-> b, Z |-> c]
ZeroVec == Vec(0, 0, 0)

\* centre of the region of a square; the world frame puts no lower limit on
\* the height of the board surface
SquareCenter(sq) ==
    IF sq = e2 THEN Vec(100, 20, 0 - 5) ELSE Vec(100, 60, 0)

ClassDigit(c) == IF c = 0 THEN "0" ELSE IF c = 1 THEN "1" ELSE "2"

\* one object of a capture: label "<square>-<class>", centre of the region,
\* highest point of the region
Obj(sq, cls, peakZ) ==
    [label  |-> sq \o <<"-", ClassDigit(cls)>>,
     center |-> SquareCenter(sq),
     high   |-> Vec(SquareCenter(sq).X + 4, SquareCenter(sq).Y - 2, peakZ)]

PeakZs == {MaxPeakZ}

\* what a capture reports for one square: nothing ("absent"), or a class
ObsKinds == {"absent", "empty", "white", "black"}
ObsKindsE2 == ObsKinds \ {"black"}
ObsKindsE4 == ObsKinds \ {"white"}

ObsClass(k) == IF k = "empty" THEN 0 ELSE IF k = "white" THEN 1 ELSE 2

ObjsOf(sq, kind, peakZ) ==
    IF kind = "absent" THEN <<>> ELSE <<Obj(sq, ObsClass(kind), peakZ)>>

\* the captures the camera service can hand back: VisCapture.Objects
Snapshots ==
    { ObjsOf(e2, k2, z) \o ObjsOf(e4, k4, z) :
        <<k2, k4, z>> \in ObsKindsE2 \X ObsKindsE4 \X PeakZs }

NoData == <<>>

\* ------------------------------------------------------------ findObject
RECURSIVE FindFrom(_, _, _)
FindFrom(objs, pos, i) ==
    IF i > Len(objs) THEN 0
    ELSE IF HasPrefix(objs[i].label, pos) THEN i
    ELSE FindFrom(objs, pos, i + 1)

\* index of the first object whose label starts with pos, 0 for nil
findObject(objs, pos) == FindFrom(objs, pos, 1)

getCenterForCenter(objs, pos) ==
    IF pos = DASH THEN [ok |-> TRUE, v |-> Vec(400, 0 - 400, 400)]
    ELSE LET i == findObject(objs, pos) IN
         IF i = 0 THEN [ok |-> FALSE, v |-> ZeroVec]
         ELSE [ok |-> TRUE, v |-> objs[i].center]

\* [ok, v]: the point to go to for pos
getCenterFor(objs, pos) ==
    IF pos = DASH THEN [ok |-> TRUE, v |-> Vec(400, 0 - 400, 400)]
    ELSE LET i == findObject(objs, pos) IN
         IF i = 0 THEN [ok |-> FALSE, v |-> ZeroVec]
         ELSE LET o == objs[i] IN
              IF HasSuffix(o.label, EmptySuffix)
              THEN [ok |-> TRUE, v |-> o.center]
              ELSE [ok |-> TRUE,
                    v  |-> Vec((o.center.X + o.high.X) \div 2,
                               (o.center.Y + o.high.Y) \div 2,
                               o.high.Z)]

\* ------------------------------------------------------------ myGrab
\* apertures the arm can report around the threshold
Apertures == {minAperture - 1, minAperture, minAperture + 1}

myGrabStrict(got, p) == got /\ p > minAperture

\* result of myGrab once Grab returned got and get_gripper returned p
myGrabAccepts(got, p) ==
    IF p < minAperture /\ got THEN FALSE ELSE got

\* ------------------------------------------------------------ positions
\* A position is the list of moves played from the starting position.
StartPos == <<>>

Mv(a, b, t) == [s1 |-> a, s2 |-> b, tag |-> t]
NoMove == Mv(NoStr, NoStr, "nil")

Moves ==
    { Mv(e2, e4, "none"),
      Mv(e2, e4, "KingSideCastle"), Mv(e4, e2, "QueenSideCastle") }

IsCastle(mv) == mv.tag = "KingSideCastle" \/ mv.tag = "QueenSideCastle"

\* Move.String(): origin square followed by destination square
MoveString(mv) == mv.s1 \o mv.s2

\* the text of a position, and the text of a file that is no position
FEN(pos) == <<"fen">> \o pos
Garbage == <<"garbage">>
Missing == <<"missing">>

\* chess.FEN: [ok, pos]
ParseFEN(text) ==
    IF Len(text) > 0 /\ Head(text) = "fen"
    THEN [ok |-> TRUE, pos |-> Tail(text)]
    ELSE [ok |-> FALSE, pos |-> StartPos]

RECURSIVE SeqsUpTo(_, _)
SeqsUpTo(S, n) ==
    IF n = 0 THEN {<<>>}
    ELSE LET prev == SeqsUpTo(S, n - 1) IN
         prev \cup { Append(q, e) : <<q, e>> \in prev \X S }

\* ------------------------------------------------------------ piece finder
\* A point of a cloud: its height and its data, which is missing ("nil"),
\* carries no colour ("plain"), or carries a colour with r = g = b = grey.
\* For such colours the float64 averages of estimatePieceColor compare with
\* 128 as the exact means do.
Pt(z, d, g) == [Z |-> z, data |-> d, grey |-> g]

PointKinds ==
    { Pt(0, "nil", 0), Pt(0, "plain", 0),
      Pt(0, "color", 127), Pt(0, "color", 128), Pt(0, "color", 129),
      Pt(minPieceSize, "color", 255), Pt(minPieceSize + 1, "color", 255) }

\* a cloud is a bag of points
NoCloud == EmptyBag

RECURSIVE MaxOver(_)
MaxOver(S) ==
    IF S = {} THEN 0 - 1000000
    ELSE LET k == CHOOSE k \in S : TRUE
             r == MaxOver(S \ {k})
         IN  IF k.Z > r THEN k.Z ELSE r

\* pc.MetaData().MaxZ
MetaMaxZ(cloud) == MaxOver(BagToSet(cloud))

RECURSIVE IterateTopBand(_, _, _)
IterateTopBand(S, cloud, minZ) ==
    IF S = {} THEN [count |-> 0, totalR |-> 0, totalG |-> 0, totalB |-> 0]
    ELSE LET k == CHOOSE k \in S : TRUE
             a == IterateTopBand(S \ {k}, cloud, minZ)
             n == CopiesIn(k, cloud)
         IN  IF k.Z >= minZ /\ k.data # "nil" /\ k.data = "color"
             THEN [count  |-> a.count + n,
                   totalR |-> a.totalR + n * k.grey,
                   totalG |-> a.totalG + n * k.grey,
                   totalB |-> a.totalB + n * k.grey]
             ELSE a

\* what the callback of pc.Iterate has added up once it has seen the points
\* of the kinds in S: [count, totalR, totalG, totalB]
RECURSIVE Iterate(_, _, _)
Iterate(S, cloud, minZ) ==
    IF S = {} THEN [count |-> 0, totalR |-> 0, totalG |-> 0, totalB |-> 0]
    ELSE LET k == CHOOSE k \in S : TRUE
             a == Iterate(S \ {k}, cloud, minZ)
             n == CopiesIn(k, cloud)
         IN  IF k.Z < minZ /\ k.data # "nil" /\ k.data = "color"
             THEN [count  |-> a.count + n,
                   totalR |-> a.totalR + n * k.grey,
                   totalG |-> a.totalG + n * k.grey,
                   totalB |-> a.totalB + n * k.grey]
             ELSE a

\* the clouds of at most n points
RECURSIVE CloudsUpTo(_)
CloudsUpTo(n) ==
    IF n = 0 THEN {NoCloud}
    ELSE LET prev == CloudsUpTo(n - 1) IN
         prev \cup { b (+) SetToBag({k}) : b \in prev, k \in PointKinds }

Clouds == CloudsUpTo(MaxPoints)

\* ---- the board as the camera sees it
\* rune of a file letter, and the letter of a rune
RuneA == 97
RuneH == 104
Letters == <<"a", "b", "c", "d", "e", "f", "g", "h">>
Chr(r) == <<Letters[r - RuneA + 1]>>

\* %d of a non-negative number
Digits == <<"0", "1", "2", "3", "4", "5", "6", "7", "8", "9">>
RECURSIVE Itoa(_)
Itoa(n) ==
    IF n < 10 THEN <<Digits[n + 1]>>
    ELSE Itoa(n \div 10) \o <<Digits[(n % 10) + 1]>>

SquareNameRankFirst(f, r) == Itoa(r) \o Chr(f)

\* name := fmt.Sprintf("%s%d", string([]byte{byte(file)}), rank)
SquareName(f, r) == Chr(f) \o Itoa(r)

\* fmt.Sprintf("%s-%d", s.name, s.color)
ObjectLabel(name, color) == name \o <<"-">> \o Itoa(color)

\* the cell of the image a square is cut from: column and row of srcRect in
\* units of squareSize
CellOf(f, r) == <<RuneH - f, r - 1>>

\* what stands on a cell, and the cloud the camera has of it
CellCloud(what) ==
    IF what = "white"
    THEN SetToBag({Pt(minPieceSize + 1, "color", 255)})
           (+) [k \in {Pt(0, "color", 129)} |-> minPoints + 1]
    ELSE IF what = "black"
    THEN SetToBag({Pt(minPieceSize + 1, "color", 255)})
           (+) [k \in {Pt(0, "color", 127)} |-> minPoints + 1]
    ELSE [k \in {Pt(0, "color", 128)} |-> minPoints + 1]

\* boards the camera can be looking at: bare, set up for a game, and set up
\* with the pawn of the e file moved two squares
Boards ==
    LET Cells == (0..7) \X (0..7)
        bare == [c \in Cells |-> "none"]
        setup == [c \in Cells |->
                    IF c[2] <= 1 THEN "white"
                    ELSE IF c[2] >= 6 THEN "black" ELSE "none"]
        moved == [setup EXCEPT ![CellOf(RuneA + 4, 2)] = "none",
                               ![CellOf(RuneA + 4, 4)] = "white"]
    IN  {bare, setup, moved}

NoBoard == [c \in {} |-> "none"]

\* one squareInfo, and one labelled object of the result
SquareInfo(r, f, n, c) == [rank |-> r, file |-> f, name |-> n, color |-> c]
LabelledObj(l) == [label |-> l]

estimatePieceColorAtLeast(cloud) ==
    LET minZ == MetaMaxZ(cloud) - minPieceSize
        a    == Iterate(BagToSet(cloud), cloud, minZ)
    IN  IF a.count <= minPoints THEN 0
        ELSE IF a.totalR + a.totalG + a.totalB >= 3 * whiteAbove * a.count
        THEN 1
        ELSE 2

\* 0 - blank, 1 - white, 2 - black. brightness is the mean of the three
\* channel averages, so brightness > 128 is
\* totalR + totalG + totalB > 3 * 128 * count
estimatePieceColor(cloud) ==
    LET minZ == MetaMaxZ(cloud) - minPieceSize
        a    == Iterate(BagToSet(cloud), cloud, minZ)
    IN  IF a.count <= minPoints THEN 0
        ELSE IF a.totalR + a.totalG + a.totalB > 3 * whiteAbove * a.count
        THEN 1
        ELSE 2

\* ------------------------------------------------------------ commands
\* the decoded cmdStruct: Move.From, Move.To, Move.N and Go
Cmd(f, t, n, g) == [from |-> f, to |-> t, n |-> n, go |-> g]
NoCmd == Cmd(NoStr, NoStr, 0, 0)

\* the commands callers send: a full move with a repeat count, with or
\* without a play count beside it; a play count alone; half a move
Commands ==
    { Cmd(e2, e4, n, n % 2) : n \in 0..MaxCount }
      \cup { Cmd(NoStr, NoStr, 0, g) : g \in (0 - 1)..MaxCount }
      \cup { Cmd(e2, NoStr, 1, 0) }

\* what DoCommand returns: the result map (nil, or {"move": label}) and error
Res(v, e) == [val |-> v, err |-> e]
NilMap == [isnil |-> TRUE, move |-> NoStr]
MoveMap(label) == [isnil |-> FALSE, move |-> label]
NoRes == Res(NilMap, "unset")

\* one movePiece activation: its arguments, who called it, and its locals
Frame(f, t, r) ==
    [from |-> f, to |-> t, ret |-> r,
     useZ |-> 100, center |-> ZeroVec, dest |-> ZeroVec]

\* ------------------------------------------------------------ state
VARIABLES
    lock,       \* doCommandLock: 0 when free, else the invocation holding it
    fenFile,    \* text of the position file, Missing when there is no file
    pc,         \* where each caller's invocation stands ("lock": not yet in)
    site,       \* which call of goToStart / which loop an invocation is in
    cmd,        \* the decoded command
    x,          \* loop counter of the manual-move / auto-play loop
    data,       \* the capture of the current iteration
    stack,      \* movePiece activations, innermost last
    err,        \* error a returning movePiece hands to its caller
    got,        \* what gripper.Grab reported in the current myGrab
    ap,         \* the aperture get_gripper reported in the current myGrab
    grabbed,    \* what myGrab returned to the retry loop
    game,       \* the game of the current makeAMove
    loaded,     \* the position getGame returned in the current makeAMove
    m,          \* the move picked in the current makeAMove
    ret,        \* result and error DoCommand hands back
    opRet,      \* result and error set by the return statement
    warned,     \* the deferred homing logged "can't go home"
    calls,      \* external calls of the current loop iteration or closure
    region,     \* piece finder: the cloud handed to estimatePieceColor
    pieceColor, \* piece finder: what estimatePieceColor returned, -1 before
    scanAt,     \* where a call of GetObjectPointClouds stands
    board,      \* the image and cloud the input camera delivered
    rank,       \* loop variable of BoardDebugImageHack
    file,       \* loop variable of BoardDebugImageHack
    squares,    \* the squareInfo list built by BoardDebugImageHack
    objs,       \* the objects GetObjectPointClouds has labelled
    scanErr     \* whether GetObjectPointClouds returned an error

\* the state of the chess service, and that of the piece finder
chessVars == <<lock, fenFile, pc, site, cmd, x, data, stack, err, got, ap,
               grabbed, game, loaded, m, ret, opRet, warned, calls>>
colorVars == <<region, pieceColor>>
scanVars == <<scanAt, board, rank, file, squares, objs, scanErr>>
finderVars == <<colorVars, scanVars>>

vars == <<chessVars, finderVars>>

\* no call of GetObjectPointClouds is under way
ScanIdle ==
    /\ scanAt = "images"
    /\ board = NoBoard
    /\ rank = 1
    /\ file = RuneA
    /\ squares = <<>>
    /\ objs = <<>>
    /\ scanErr = FALSE

\* no call of the piece finder is under way
FinderIdle ==
    /\ region = NoCloud
    /\ pieceColor = 0 - 1
    /\ ScanIdle

\* the chess service after construction
ChessInit ==
    /\ lock = 0
    /\ fenFile \in {Missing, Garbage, FEN(StartPos)}
    /\ pc = [p \in Procs |-> "lock"]
    /\ site = [p \in Procs |-> "none"]
    /\ cmd = [p \in Procs |-> NoCmd]
    /\ x = [p \in Procs |-> 0]
    /\ data = [p \in Procs |-> NoData]
    /\ stack = [p \in Procs |-> <<>>]
    /\ err = [p \in Procs |-> "nil"]
    /\ got = [p \in Procs |-> FALSE]
    /\ ap = [p \in Procs |-> 0]
    /\ grabbed = [p \in Procs |-> FALSE]
    /\ game = [p \in Procs |-> StartPos]
    /\ loaded = [p \in Procs |-> StartPos]
    /\ m = [p \in Procs |-> NoMove]
    /\ ret = [p \in Procs |-> NoRes]
    /\ opRet = [p \in Procs |-> NoRes]
    /\ warned = [p \in Procs |-> FALSE]
    /\ calls = [p \in Procs |-> <<>>]

Init ==
    /\ ChessInit
    /\ FinderIdle

\* ------------------------------------------------------------ helpers
HomePcs == {"home_switch", "home_open", "home_pose"}

\* the record of one external call
CallRec(p, name, arg, ok) ==
    [call  |-> name, arg |-> arg, at |-> pc[p], depth |-> Len(stack[p]),
     fin   |-> (site[p] = "defer"), ok |-> ok]

Log(p, name, arg, ok) ==
    calls' = [calls EXCEPT ![p] = Append(@, CallRec(p, name, arg, ok))]

\* the record starts anew with each loop iteration and with the deferred
\* closure
LogFresh(p) == calls' = [calls EXCEPT ![p] = <<>>]

Goto(p, label) ==
    /\ pc' = [pc EXCEPT ![p] = label]
    /\ UNCHANGED <<site, ret, opRet, warned>>

\* call goToStart from the loop named s
CallHome(p, s) ==
    /\ pc' = [pc EXCEPT ![p] = "home_switch"]
    /\ site' = [site EXCEPT ![p] = s]
    /\ UNCHANGED <<ret, opRet, warned>>

DoReturnNoHome(p, v, e) ==
    /\ ret' = [ret EXCEPT ![p] = Res(v, e)]
    /\ opRet' = [opRet EXCEPT ![p] = Res(v, e)]
    /\ pc' = [pc EXCEPT ![p] = IF e = "nil" THEN "deferred" ELSE "unlock"]
    /\ UNCHANGED <<site, warned>>

\* a return statement of DoCommand: the results are set; what is left to
\* run are the deferred calls
DoReturn(p, v, e) ==
    /\ ret' = [ret EXCEPT ![p] = Res(v, e)]
    /\ opRet' = [opRet EXCEPT ![p] = Res(v, e)]
    /\ pc' = [pc EXCEPT ![p] = "deferred"]
    /\ UNCHANGED <<site, warned>>

HomeDoneOverride(p, e) ==
    IF site[p] = "manual" THEN
        IF e # "nil" THEN DoReturn(p, NilMap, e) ELSE Goto(p, "m_capture")
    ELSE IF site[p] = "auto" THEN
        IF e # "nil" THEN DoReturn(p, NilMap, "can't go home")
        ELSE Goto(p, "load")
    ELSE
        /\ pc' = [pc EXCEPT ![p] = "unlock"]
        /\ warned' = [warned EXCEPT ![p] = (e # "nil")]
        /\ ret' = [ret EXCEPT ![p] =
                     IF e # "nil" THEN Res(NilMap, e) ELSE @]
        /\ UNCHANGED <<site, opRet>>

\* goToStart returns e to its caller: the manual loop (215-218), makeAMove
\* (495-498) or the deferred closure (199-204)
HomeDone(p, e) ==
    IF site[p] = "manual" THEN
        IF e # "nil" THEN DoReturn(p, NilMap, e) ELSE Goto(p, "m_capture")
    ELSE IF site[p] = "auto" THEN
        IF e # "nil" THEN DoReturn(p, NilMap, "can't go home")
        ELSE Goto(p, "load")
    ELSE
        /\ pc' = [pc EXCEPT ![p] = "unlock"]
        /\ warned' = [warned EXCEPT ![p] = (e # "nil")]
        /\ UNCHANGED <<site, ret, opRet>>

\* ------------------------------------------------------------ DoCommand
LockNoWait(p) ==
    /\ pc[p] = "lock"
    /\ UNCHANGED finderVars
    /\ lock' = p
    /\ pc' = [pc EXCEPT ![p] = "decode"]
    /\ UNCHANGED <<fenFile, site, cmd, x, data, stack, err, got, ap, grabbed, game,
                   loaded, m, ret, opRet, warned, calls>>

\* a caller has invoked DoCommand and stands at doCommandLock.Lock(), which
\* returns once the mutex is free
Lock(p) ==
    /\ pc[p] = "lock"
    /\ UNCHANGED finderVars
    /\ lock = 0
    /\ lock' = p
    /\ pc' = [pc EXCEPT ![p] = "decode"]
    /\ UNCHANGED <<fenFile, site, cmd, x, data, stack, err, got, ap, grabbed, game,
                   loaded, m, ret, opRet, warned, calls>>

DecodeGoFirst(p) ==
    /\ pc[p] = "decode"
    /\ UNCHANGED finderVars
    /\ \E ok \in BOOLEAN, c \in Commands :
        /\ cmd' = [cmd EXCEPT ![p] = IF ok THEN c ELSE NoCmd]
        /\ IF ~ok THEN DoReturn(p, NilMap, "decode")
           ELSE IF c.go > 0 THEN CallHome(p, "auto")
           ELSE IF c.to # NoStr /\ c.from # NoStr THEN
               IF c.n > 0 THEN CallHome(p, "manual")
               ELSE DoReturn(p, NilMap, "nil")
           ELSE DoReturn(p, NilMap, "bad cmd")
    /\ x' = [x EXCEPT ![p] = 0]
    /\ LogFresh(p)
    /\ UNCHANGED <<lock, fenFile, data, stack, err, got, ap, grabbed, game, loaded, m>>

\* mapstructure.Decode and the dispatch on the decoded command
Decode(p) ==
    /\ pc[p] = "decode"
    /\ UNCHANGED finderVars
    /\ \E ok \in BOOLEAN, c \in Commands :
        /\ cmd' = [cmd EXCEPT ![p] = IF ok THEN c ELSE NoCmd]
        /\ IF ~ok THEN DoReturn(p, NilMap, "decode")
           ELSE IF c.to # NoStr /\ c.from # NoStr THEN
               IF c.n > 0 THEN CallHome(p, "manual")
               ELSE DoReturn(p, NilMap, "nil")
           ELSE IF c.go > 0 THEN CallHome(p, "auto")
           ELSE DoReturn(p, NilMap, "bad cmd")
    /\ x' = [x EXCEPT ![p] = 0]
    /\ LogFresh(p)
    /\ UNCHANGED <<lock, fenFile, data, stack, err, got, ap, grabbed, game, loaded, m>>

\* the body of DoCommand is left, its locals are gone, and the deferred
\* closure (199-204) starts with its call of goToStart
RunDeferred(p) ==
    /\ pc[p] = "deferred"
    /\ UNCHANGED finderVars
    /\ pc' = [pc EXCEPT ![p] = "home_switch"]
    /\ site' = [site EXCEPT ![p] = "defer"]
    /\ cmd' = [cmd EXCEPT ![p] = NoCmd]
    /\ x' = [x EXCEPT ![p] = 0]
    /\ data' = [data EXCEPT ![p] = NoData]
    /\ stack' = [stack EXCEPT ![p] = <<>>]
    /\ err' = [err EXCEPT ![p] = "nil"]
    /\ got' = [got EXCEPT ![p] = FALSE]
    /\ ap' = [ap EXCEPT ![p] = 0]
    /\ grabbed' = [grabbed EXCEPT ![p] = FALSE]
    /\ game' = [game EXCEPT ![p] = StartPos]
    /\ loaded' = [loaded EXCEPT ![p] = StartPos]
    /\ m' = [m EXCEPT ![p] = NoMove]
    /\ LogFresh(p)
    /\ UNCHANGED <<lock, fenFile, ret, opRet, warned>>

\* the deferred doCommandLock.Unlock(); DoCommand has returned, and the
\* caller's next invocation finds it at Lock again
Unlock(p) ==
    /\ pc[p] = "unlock"
    /\ UNCHANGED finderVars
    /\ lock' = 0
    /\ pc' = [pc EXCEPT ![p] = "lock"]
    /\ site' = [site EXCEPT ![p] = "none"]
    /\ cmd' = [cmd EXCEPT ![p] = NoCmd]
    /\ x' = [x EXCEPT ![p] = 0]
    /\ data' = [data EXCEPT ![p] = NoData]
    /\ stack' = [stack EXCEPT ![p] = <<>>]
    /\ err' = [err EXCEPT ![p] = "nil"]
    /\ got' = [got EXCEPT ![p] = FALSE]
    /\ ap' = [ap EXCEPT ![p] = 0]
    /\ grabbed' = [grabbed EXCEPT ![p] = FALSE]
    /\ game' = [game EXCEPT ![p] = StartPos]
    /\ loaded' = [loaded EXCEPT ![p] = StartPos]
    /\ m' = [m EXCEPT ![p] = NoMove]
    /\ ret' = [ret EXCEPT ![p] = NoRes]
    /\ opRet' = [opRet EXCEPT ![p] = NoRes]
    /\ warned' = [warned EXCEPT ![p] = FALSE]
    /\ calls' = [calls EXCEPT ![p] = <<>>]
    /\ UNCHANGED fenFile

\* ------------------------------------------------------------ goToStart
\* poseStart.SetPosition(ctx, 2, nil)
HomeSwitch(p) ==
    /\ pc[p] = "home_switch"
    /\ UNCHANGED finderVars
    /\ \E ok \in BOOLEAN :
        /\ Log(p, "SetPosition", Vec(2, 0, 0), ok)
        /\ IF ok THEN Goto(p, "home_open") ELSE HomeDone(p, "switch")
    /\ UNCHANGED <<lock, fenFile, cmd, x, data, stack, err, got, ap, grabbed, game,
                   loaded, m>>

\* gripper.Open(ctx, nil), then the one-second sleep
HomeOpen(p) ==
    /\ pc[p] = "home_open"
    /\ UNCHANGED finderVars
    /\ \E ok \in BOOLEAN :
        /\ Log(p, "Open", ZeroVec, ok)
        /\ IF ok THEN Goto(p, "home_pose") ELSE HomeDone(p, "open")
    /\ UNCHANGED <<lock, fenFile, cmd, x, data, stack, err, got, ap, grabbed, game,
                   loaded, m>>

\* rfs.GetPose for the gripper; goToStart returns
HomePose(p) ==
    /\ pc[p] = "home_pose"
    /\ UNCHANGED finderVars
    /\ \E ok \in BOOLEAN :
        /\ Log(p, "GetPose", ZeroVec, ok)
        /\ HomeDone(p, IF ok THEN "nil" ELSE "pose")
    /\ UNCHANGED <<lock, fenFile, cmd, x, data, stack, err, got, ap, grabbed, game,
                   loaded, m>>

\* ------------------------------------------------------------ loops
CaptureManualOneWay(p) ==
    /\ pc[p] = "m_capture"
    /\ UNCHANGED finderVars
    /\ \/ /\ Log(p, "Capture", ZeroVec, FALSE)
          /\ DoReturn(p, NilMap, "capture")
          /\ UNCHANGED <<data, stack>>
       \/ \E snap \in Snapshots :
          /\ Log(p, "Capture", ZeroVec, TRUE)
          /\ data' = [data EXCEPT ![p] = snap]
          /\ stack' = [stack EXCEPT ![p] =
                         <<Frame(cmd[p].from, cmd[p].to, "manual")>>]
          /\ Goto(p, "mp_check")
    /\ UNCHANGED <<lock, fenFile, cmd, x, err, got, ap, grabbed, game, loaded, m>>

\* manual move: direction of iteration x, CaptureAllFromCamera, movePiece
CaptureManual(p) ==
    /\ pc[p] = "m_capture"
    /\ UNCHANGED finderVars
    /\ LET from == IF x[p] % 2 = 1 THEN cmd[p].to ELSE cmd[p].from
           to   == IF x[p] % 2 = 1 THEN cmd[p].from ELSE cmd[p].to
       IN  \/ /\ Log(p, "Capture", ZeroVec, FALSE)
              /\ DoReturn(p, NilMap, "capture")
              /\ UNCHANGED <<data, stack>>
           \/ \E snap \in Snapshots :
              /\ Log(p, "Capture", ZeroVec, TRUE)
              /\ data' = [data EXCEPT ![p] = snap]
              /\ stack' = [stack EXCEPT ![p] = <<Frame(from, to, "manual")>>]
              /\ Goto(p, "mp_check")
    /\ UNCHANGED <<lock, fenFile, cmd, x, err, got, ap, grabbed, game, loaded, m>>

\* ------------------------------------------------------------ makeAMove
getGameDefault(text, readOk) ==
    IF text = Missing THEN [err |-> "nil", pos |-> StartPos]
    ELSE IF ~readOk THEN [err |-> "error reading fen", pos |-> StartPos]
    ELSE IF ~ParseFEN(text).ok THEN [err |-> "nil", pos |-> StartPos]
    ELSE [err |-> "nil", pos |-> ParseFEN(text).pos]

\* getGame on a file with this text, readOk telling whether an existing
\* file could be read
getGame(text, readOk) ==
    IF text = Missing THEN [err |-> "nil", pos |-> StartPos]
    ELSE IF ~readOk THEN [err |-> "error reading fen", pos |-> StartPos]
    ELSE IF ~ParseFEN(text).ok THEN [err |-> "invalid fen", pos |-> StartPos]
    ELSE [err |-> "nil", pos |-> ParseFEN(text).pos]

\* game, err := s.getGame(ctx)
LoadGame(p) ==
    /\ pc[p] = "load"
    /\ UNCHANGED finderVars
    /\ \E readOk \in BOOLEAN :
        LET r == getGame(fenFile, readOk) IN
        /\ Log(p, "ReadFile", ZeroVec, fenFile # Missing /\ readOk)
        /\ IF r.err # "nil"
           THEN /\ DoReturn(p, NilMap, r.err)
                /\ UNCHANGED <<game, loaded>>
           ELSE /\ game' = [game EXCEPT ![p] = r.pos]
                /\ loaded' = [loaded EXCEPT ![p] = r.pos]
                /\ Goto(p, "pick")
    /\ UNCHANGED <<lock, fenFile, cmd, x, data, stack, err, got, ap, grabbed, m>>

\* m, err := s.pickMove(ctx, game): the engine fails, the game has no
\* further move, or the engine names its best move
PickMove(p) ==
    /\ pc[p] = "pick"
    /\ UNCHANGED finderVars
    /\ \/ /\ Log(p, "Engine", ZeroVec, FALSE)
          /\ DoReturn(p, NilMap, "pick")
          /\ m' = m
       \/ /\ Len(game[p]) < MaxPly
          /\ \E mv \in Moves :
              /\ Log(p, "Engine", ZeroVec, TRUE)
              /\ m' = [m EXCEPT ![p] = mv]
              /\ Goto(p, "castle_check")
    /\ UNCHANGED <<lock, fenFile, cmd, x, data, stack, err, got, ap, grabbed, game,
                   loaded>>

CastleCheckLate(p) ==
    /\ pc[p] = "castle_check"
    /\ UNCHANGED finderVars
    /\ Goto(p, "a_capture")
    /\ UNCHANGED <<lock, fenFile, cmd, x, data, stack, err, got, ap, grabbed, game,
                   loaded, m, calls>>

\* if m.HasTag(KingSideCastle) || m.HasTag(QueenSideCastle) { return err }
CastleCheck(p) ==
    /\ pc[p] = "castle_check"
    /\ UNCHANGED finderVars
    /\ IF IsCastle(m[p])
       THEN DoReturn(p, NilMap, "can't handle castle")
       ELSE Goto(p, "a_capture")
    /\ UNCHANGED <<lock, fenFile, cmd, x, data, stack, err, got, ap, grabbed, game,
                   loaded, m, calls>>

\* auto-play: CaptureAllFromCamera, then movePiece(all, m.S1, m.S2)
CaptureAuto(p) ==
    /\ pc[p] = "a_capture"
    /\ UNCHANGED finderVars
    /\ \/ /\ Log(p, "Capture", ZeroVec, FALSE)
          /\ DoReturn(p, NilMap, "capture")
          /\ UNCHANGED <<data, stack>>
       \/ \E snap \in Snapshots :
          /\ Log(p, "Capture", ZeroVec, TRUE)
          /\ data' = [data EXCEPT ![p] = snap]
          /\ stack' = [stack EXCEPT ![p] =
                         <<Frame(m[p].s1, m[p].s2, "auto")>>]
          /\ Goto(p, "mp_check")
    /\ UNCHANGED <<lock, fenFile, cmd, x, err, got, ap, grabbed, game, loaded, m>>

ApplyNothing(p) ==
    /\ pc[p] = "apply"
    /\ UNCHANGED finderVars
    /\ \/ DoReturn(p, NilMap, "apply")
       \/ Goto(p, "save")
    /\ UNCHANGED <<lock, fenFile, cmd, x, data, stack, err, got, ap, grabbed, game,
                   loaded, m, calls>>

\* err = game.Move(m, nil)
ApplyMove(p) ==
    /\ pc[p] = "apply"
    /\ UNCHANGED finderVars
    /\ \/ /\ DoReturn(p, NilMap, "apply")
          /\ game' = game
       \/ /\ game' = [game EXCEPT ![p] = Append(@, m[p])]
          /\ Goto(p, "save")
    /\ UNCHANGED <<lock, fenFile, cmd, x, data, stack, err, got, ap, grabbed, loaded, m,
                   calls>>

SaveGameOnce(p) ==
    /\ pc[p] = "save"
    /\ UNCHANGED finderVars
    /\ \/ /\ Log(p, "WriteFile", ZeroVec, FALSE)
          /\ fenFile' \in {fenFile, Garbage}
          /\ DoReturn(p, NilMap, "save")
          /\ x' = x
       \/ /\ fenFile' = FEN(game[p])
          /\ x' = [x EXCEPT ![p] = @ + 1]
          /\ DoReturn(p, MoveMap(MoveString(m[p])), "nil")
          /\ Log(p, "WriteFile", ZeroVec, TRUE)
    /\ UNCHANGED <<lock, cmd, data, stack, err, got, ap, grabbed, game, loaded, m>>

\* err = s.saveGame(ctx, game); makeAMove returns m to the loop of DoCommand
SaveGame(p) ==
    /\ pc[p] = "save"
    /\ UNCHANGED finderVars
    /\ \/ /\ Log(p, "WriteFile", ZeroVec, FALSE)
          /\ fenFile' \in {fenFile, Garbage}
          /\ DoReturn(p, NilMap, "save")
          /\ x' = x
       \/ /\ fenFile' = FEN(game[p])
          /\ x' = [x EXCEPT ![p] = @ + 1]
          /\ IF x[p] + 1 < cmd[p].go
             THEN /\ CallHome(p, "auto")
                  /\ LogFresh(p)
             ELSE /\ DoReturn(p, MoveMap(MoveString(m[p])), "nil")
                  /\ Log(p, "WriteFile", ZeroVec, TRUE)
    /\ UNCHANGED <<lock, cmd, data, stack, err, got, ap, grabbed, game, loaded, m>>

\* ------------------------------------------------------------ movePiece
Top(p) == stack[p][Len(stack[p])]

SetTop(p, f) ==
    stack' = [stack EXCEPT ![p] = [@ EXCEPT ![Len(@)] = f]]

\* movePiece returns the error e
Fail(p, e) ==
    /\ err' = [err EXCEPT ![p] = e]
    /\ Goto(p, "mp_return")

\* s.setupGripper: arm.DoCommand {"move_gripper": 450}
setupGripper(p, ok) == Log(p, "move_gripper", Vec(450, 0, 0), ok)

\* s.moveGripper(v): motion.Move of the gripper to v
moveGripper(p, v, ok) == Log(p, "Move", v, ok)

LowerZHalf(z) == z - 5

\* useZ -= 10
LowerZ(z) == z - graspStep

MP_CheckNoDisplace(p) ==
    /\ pc[p] = "mp_check"
    /\ UNCHANGED finderVars
    /\ LET f == Top(p)
           i == findObject(data[p], f.to)
       IN  IF f.to # DASH /\ i = 0
           THEN Fail(p, "can't find object") /\ stack' = stack
           ELSE Goto(p, "mp_resolve") /\ UNCHANGED <<stack, err>>
    /\ UNCHANGED <<lock, fenFile, cmd, x, data, got, ap, grabbed, game,
                   loaded, m, calls>>

\* lines 309-322: look at the destination; a piece standing there is moved
\* to "-" by a nested movePiece first
MP_Check(p) ==
    /\ pc[p] = "mp_check"
    /\ UNCHANGED finderVars
    /\ LET f == Top(p)
           i == findObject(data[p], f.to)
       IN  IF f.to # DASH
           THEN IF i = 0
                THEN Fail(p, "can't find object") /\ stack' = stack
                ELSE IF ~HasSuffix(data[p][i].label, EmptySuffix)
                THEN /\ stack' = [stack EXCEPT ![p] =
                                    Append(@, Frame(f.to, DASH, "recurse"))]
                     /\ Goto(p, "mp_check")
                     /\ err' = err
                ELSE Goto(p, "mp_resolve") /\ UNCHANGED <<stack, err>>
           ELSE Goto(p, "mp_resolve") /\ UNCHANGED <<stack, err>>
    /\ UNCHANGED <<lock, fenFile, cmd, x, data, got, ap, grabbed, game,
                   loaded, m, calls>>

\* lines 324-336: resolve from, useZ = center.Z, setupGripper
MP_PickSetup(p) ==
    /\ pc[p] = "mp_resolve"
    /\ UNCHANGED finderVars
    /\ LET f == Top(p)
           c == getCenterFor(data[p], f.from)
       IN  IF ~c.ok
           THEN /\ Fail(p, "can't find object")
                /\ UNCHANGED <<stack, calls>>
           ELSE /\ SetTop(p, [f EXCEPT !.center = c.v, !.useZ = c.v.Z])
                /\ \E ok \in BOOLEAN :
                    /\ setupGripper(p, ok)
                    /\ IF ok THEN Goto(p, "mp_transit") /\ err' = err
                       ELSE Fail(p, "arm")
    /\ UNCHANGED <<lock, fenFile, cmd, x, data, got, ap, grabbed, game,
                   loaded, m>>

MP_TransitIgnoreErr(p) ==
    /\ pc[p] = "mp_transit"
    /\ UNCHANGED finderVars
    /\ LET f == Top(p) IN
       \E ok \in BOOLEAN :
        /\ moveGripper(p, Vec(f.center.X, f.center.Y, safeZ), ok)
        /\ Goto(p, "mp_descend") /\ err' = err
    /\ UNCHANGED <<lock, fenFile, cmd, x, data, stack, got, ap, grabbed,
                   game, loaded, m>>

\* line 338: travel above the source square at safeZ
MP_Transit(p) ==
    /\ pc[p] = "mp_transit"
    /\ UNCHANGED finderVars
    /\ LET f == Top(p) IN
       \E ok \in BOOLEAN :
        /\ moveGripper(p, Vec(f.center.X, f.center.Y, safeZ), ok)
        /\ IF ok THEN Goto(p, "mp_descend") /\ err' = err
           ELSE Fail(p, "motion")
    /\ UNCHANGED <<lock, fenFile, cmd, x, data, stack, got, ap, grabbed,
                   game, loaded, m>>

\* line 344: descend to useZ
MP_Descend(p) ==
    /\ pc[p] = "mp_descend"
    /\ UNCHANGED finderVars
    /\ LET f == Top(p) IN
       \E ok \in BOOLEAN :
        /\ moveGripper(p, Vec(f.center.X, f.center.Y, f.useZ), ok)
        /\ IF ok THEN Goto(p, "mp_grab") /\ err' = err
           ELSE Fail(p, "motion")
    /\ UNCHANGED <<lock, fenFile, cmd, x, data, stack, got, ap, grabbed,
                   game, loaded, m>>

\* myGrab, lines 538-543: gripper.Grab and the settle delay
MP_Grab(p) ==
    /\ pc[p] = "mp_grab"
    /\ UNCHANGED finderVars
    /\ \/ /\ Log(p, "Grab", ZeroVec, FALSE)
          /\ Fail(p, "gripper")
          /\ got' = got
       \/ \E g \in BOOLEAN :
          /\ Log(p, "Grab", ZeroVec, TRUE)
          /\ got' = [got EXCEPT ![p] = g]
          /\ Goto(p, "mp_getgripper")
          /\ err' = err
    /\ UNCHANGED <<lock, fenFile, cmd, x, data, stack, ap, grabbed, game,
                   loaded, m>>

\* what the record of a get_gripper call keeps: the verdict of myGrab
Verdict(accepted) == Vec(0, 0, IF accepted THEN 1 ELSE 0)

\* myGrab, lines 545-562: get_gripper and the verdict on the grasp
MP_GetGripper(p) ==
    /\ pc[p] = "mp_getgripper"
    /\ UNCHANGED finderVars
    /\ \/ /\ Log(p, "get_gripper", ZeroVec, FALSE)
          /\ \E e \in {"arm", "get_gripper weird"} : Fail(p, e)
          /\ UNCHANGED <<ap, grabbed>>
       \/ \E a \in Apertures :
          /\ Log(p, "get_gripper", Verdict(myGrabAccepts(got[p], a)), TRUE)
          /\ ap' = [ap EXCEPT ![p] = a]
          /\ grabbed' = [grabbed EXCEPT ![p] = myGrabAccepts(got[p], a)]
          /\ Goto(p, "mp_verify")
          /\ err' = err
    /\ UNCHANGED <<lock, fenFile, cmd, x, data, stack, got, game, loaded, m>>

MP_VerifyLowFloor(p) ==
    /\ pc[p] = "mp_verify"
    /\ UNCHANGED finderVars
    /\ LET f == Top(p)
           z == LowerZ(f.useZ)
       IN  IF grabbed[p]
           THEN Goto(p, "mp_ascend") /\ UNCHANGED <<stack, err>>
           ELSE /\ SetTop(p, [f EXCEPT !.useZ = z])
                /\ IF z < floorZ - 2 * graspStep
                   THEN Fail(p, "couldn't grab")
                   ELSE Goto(p, "mp_reopen") /\ err' = err
    /\ got' = [got EXCEPT ![p] = FALSE]
    /\ ap' = [ap EXCEPT ![p] = 0]
    /\ grabbed' = [grabbed EXCEPT ![p] = FALSE]
    /\ UNCHANGED <<lock, fenFile, cmd, x, data, game, loaded, m, calls>>

\* lines 353-360: leave the loop on a verified grasp, else lower useZ and
\* give up once it is below the floor
MP_Verify(p) ==
    /\ pc[p] = "mp_verify"
    /\ UNCHANGED finderVars
    /\ LET f == Top(p)
           z == LowerZ(f.useZ)
       IN  IF grabbed[p]
           THEN Goto(p, "mp_ascend") /\ UNCHANGED <<stack, err>>
           ELSE /\ SetTop(p, [f EXCEPT !.useZ = z])
                /\ IF z < floorZ
                   THEN Fail(p, "couldn't grab")
                   ELSE Goto(p, "mp_reopen") /\ err' = err
    /\ got' = [got EXCEPT ![p] = FALSE]
    /\ ap' = [ap EXCEPT ![p] = 0]
    /\ grabbed' = [grabbed EXCEPT ![p] = FALSE]
    /\ UNCHANGED <<lock, fenFile, cmd, x, data, game, loaded, m, calls>>

\* line 362: setupGripper before the next descend
MP_Reopen(p) ==
    /\ pc[p] = "mp_reopen"
    /\ UNCHANGED finderVars
    /\ \E ok \in BOOLEAN :
        /\ setupGripper(p, ok)
        /\ IF ok THEN Goto(p, "mp_descend") /\ err' = err
           ELSE Fail(p, "arm")
    /\ UNCHANGED <<lock, fenFile, cmd, x, data, stack, got, ap, grabbed,
                   game, loaded, m>>

MP_AscendNot(p) ==
    /\ pc[p] = "mp_ascend"
    /\ UNCHANGED finderVars
    /\ LET f == Top(p) IN
       \E ok \in BOOLEAN :
        /\ moveGripper(p, Vec(f.center.X, f.center.Y, f.useZ), ok)
        /\ IF ok THEN Goto(p, "mp_place_transit") /\ err' = err
           ELSE Fail(p, "motion")
    /\ UNCHANGED <<lock, fenFile, cmd, x, data, stack, got, ap, grabbed,
                   game, loaded, m>>

\* line 369: lift the piece to safeZ
MP_Ascend(p) ==
    /\ pc[p] = "mp_ascend"
    /\ UNCHANGED finderVars
    /\ LET f == Top(p) IN
       \E ok \in BOOLEAN :
        /\ moveGripper(p, Vec(f.center.X, f.center.Y, safeZ), ok)
        /\ IF ok THEN Goto(p, "mp_place_transit") /\ err' = err
           ELSE Fail(p, "motion")
    /\ UNCHANGED <<lock, fenFile, cmd, x, data, stack, got, ap, grabbed,
                   game, loaded, m>>

\* lines 376-384: resolve to, travel above it at safeZ
MP_PlaceTransit(p) ==
    /\ pc[p] = "mp_place_transit"
    /\ UNCHANGED finderVars
    /\ LET f == Top(p)
           c == getCenterFor(data[p], f.to)
       IN  IF ~c.ok
           THEN /\ Fail(p, "can't find object")
                /\ UNCHANGED <<stack, calls>>
           ELSE /\ SetTop(p, [f EXCEPT !.dest = c.v])
                /\ \E ok \in BOOLEAN :
                    /\ moveGripper(p, Vec(c.v.X, c.v.Y, safeZ), ok)
                    /\ IF ok THEN Goto(p, "mp_place_descend") /\ err' = err
                       ELSE Fail(p, "motion")
    /\ UNCHANGED <<lock, fenFile, cmd, x, data, got, ap, grabbed, game,
                   loaded, m>>

MP_PlaceDescendToDest(p) ==
    /\ pc[p] = "mp_place_descend"
    /\ UNCHANGED finderVars
    /\ LET f == Top(p)
           z == IF f.to = DASH THEN discardZ ELSE f.dest.Z
       IN  /\ SetTop(p, [f EXCEPT !.useZ = z])
           /\ \E ok \in BOOLEAN :
               /\ moveGripper(p, Vec(f.dest.X, f.dest.Y, z), ok)
               /\ IF ok THEN Goto(p, "mp_release") /\ err' = err
                  ELSE Fail(p, "motion")
    /\ UNCHANGED <<lock, fenFile, cmd, x, data, got, ap, grabbed, game,
                   loaded, m>>

\* lines 386-392: useZ = 300 for "-", descend to useZ
MP_PlaceDescend(p) ==
    /\ pc[p] = "mp_place_descend"
    /\ UNCHANGED finderVars
    /\ LET f == Top(p)
           z == IF f.to = DASH THEN discardZ ELSE f.useZ
       IN  /\ SetTop(p, [f EXCEPT !.useZ = z])
           /\ \E ok \in BOOLEAN :
               /\ moveGripper(p, Vec(f.dest.X, f.dest.Y, z), ok)
               /\ IF ok THEN Goto(p, "mp_release") /\ err' = err
                  ELSE Fail(p, "motion")
    /\ UNCHANGED <<lock, fenFile, cmd, x, data, got, ap, grabbed, game,
                   loaded, m>>

\* line 394: setupGripper lets the piece go
MP_Release(p) ==
    /\ pc[p] = "mp_release"
    /\ UNCHANGED finderVars
    /\ \E ok \in BOOLEAN :
        /\ setupGripper(p, ok)
        /\ IF ok THEN Goto(p, "mp_place_ascend") /\ err' = err
           ELSE Fail(p, "arm")
    /\ UNCHANGED <<lock, fenFile, cmd, x, data, stack, got, ap, grabbed,
                   game, loaded, m>>

\* lines 399-405: back up to safeZ; movePiece returns nil
MP_PlaceAscend(p) ==
    /\ pc[p] = "mp_place_ascend"
    /\ UNCHANGED finderVars
    /\ LET f == Top(p) IN
       \E ok \in BOOLEAN :
        /\ moveGripper(p, Vec(f.dest.X, f.dest.Y, safeZ), ok)
        /\ Fail(p, IF ok THEN "nil" ELSE "motion")
    /\ UNCHANGED <<lock, fenFile, cmd, x, data, stack, got, ap, grabbed,
                   game, loaded, m>>

\* movePiece hands err to its caller: the nested call site (317-320), the
\* manual loop (229-233) or makeAMove (519-522)
MP_Return(p) ==
    /\ pc[p] = "mp_return"
    /\ UNCHANGED finderVars
    /\ LET f == Top(p) IN
       /\ stack' = [stack EXCEPT ![p] = SubSeq(@, 1, Len(@) - 1)]
       /\ IF f.ret = "recurse" THEN
              /\ IF err[p] # "nil"
                 THEN Fail(p, "can't move piece out of the way")
                 ELSE Goto(p, "mp_resolve") /\ err' = err
              /\ UNCHANGED <<x, calls>>
          ELSE IF f.ret = "manual" THEN
              /\ err' = [err EXCEPT ![p] = "nil"]
              /\ IF err[p] # "nil"
                 THEN DoReturn(p, NilMap, err[p]) /\ UNCHANGED <<x, calls>>
                 ELSE /\ x' = [x EXCEPT ![p] = @ + 1]
                      /\ IF x[p] + 1 < cmd[p].n
                         THEN CallHome(p, "manual") /\ LogFresh(p)
                         ELSE DoReturn(p, NilMap, "nil") /\ calls' = calls
          ELSE
              /\ err' = [err EXCEPT ![p] = "nil"]
              /\ IF err[p] # "nil"
                 THEN DoReturn(p, NilMap, err[p])
                 ELSE Goto(p, "apply")
              /\ UNCHANGED <<x, calls>>
    /\ UNCHANGED <<lock, fenFile, cmd, data, got, ap, grabbed, game, loaded,
                   m>>

\* ------------------------------------------------------------ behaviours
Next ==
    \E p \in Procs :
        \/ Lock(p)
        \/ Decode(p)
        \/ RunDeferred(p)
        \/ Unlock(p)
        \/ HomeSwitch(p)
        \/ HomeOpen(p)
        \/ HomePose(p)
        \/ CaptureManual(p)
        \/ LoadGame(p)
        \/ PickMove(p)
        \/ CastleCheck(p)
        \/ CaptureAuto(p)
        \/ ApplyMove(p)
        \/ SaveGame(p)
        \/ MP_Check(p)
        \/ MP_PickSetup(p)
        \/ MP_Transit(p)
        \/ MP_Descend(p)
        \/ MP_Grab(p)
        \/ MP_GetGripper(p)
        \/ MP_Verify(p)
        \/ MP_Reopen(p)
        \/ MP_Ascend(p)
        \/ MP_PlaceTransit(p)
        \/ MP_PlaceDescend(p)
        \/ MP_Release(p)
        \/ MP_PlaceAscend(p)
        \/ MP_Return(p)

Spec == Init /\ [][Next]_vars

\* every call the code makes returns, so an invocation that can take a step
\* takes one
SpecLive == Spec /\ WF_vars(Next)

\* ------------------------------------------------------------ piece finder
\* estimatePieceColor is handed the cloud of one region
EstimateColor ==
    /\ pieceColor = 0 - 1
    /\ UNCHANGED <<chessVars, scanVars>>
    /\ pieceColor' = estimatePieceColor(region)
    /\ UNCHANGED region

InitColor ==
    /\ ChessInit
    /\ fenFile = Missing
    /\ ScanIdle
    /\ region \in Clouds
    /\ pieceColor = 0 - 1

NextColor == EstimateColor

\* estimatePieceColor on every cloud of the bounded set
SpecColor == InitColor /\ [][NextColor]_vars

\* GetObjectPointClouds returns nil and an error
ScanFail ==
    /\ scanAt' = "done"
    /\ scanErr' = TRUE
    /\ squares' = <<>>
    /\ objs' = <<>>
    /\ rank' = 1
    /\ file' = RuneA

\* lines 274-291: Images, NextPointCloud and Image of the input camera
ScanImages ==
    /\ scanAt = "images"
    /\ UNCHANGED <<chessVars, colorVars>>
    /\ \/ ScanFail /\ board' = board
       \/ /\ board' \in Boards
          /\ scanAt' = "squares"
          /\ UNCHANGED <<rank, file, squares, objs, scanErr>>

\* one pass of the inner loop of BoardDebugImageHack (153-198): cut the
\* cloud of the square, name it, classify it, append it; then the loop
\* steps of file and rank
ScanSquare ==
    /\ scanAt = "squares"
    /\ UNCHANGED <<chessVars, colorVars>>
    /\ \/ ScanFail
       \/ LET subPc == CellCloud(board[CellOf(file, rank)])
              name == SquareName(file, rank)
              info == SquareInfo(rank, file, name, estimatePieceColor(subPc))
          IN  /\ squares' = Append(squares, info)
              /\ IF file + 1 <= RuneH
                 THEN file' = file + 1 /\ rank' = rank /\ scanAt' = scanAt
                 ELSE /\ file' = RuneA
                      /\ rank' = rank + 1
                      /\ scanAt' = IF rank + 1 <= 8 THEN scanAt ELSE "objects"
              /\ UNCHANGED <<objs, scanErr>>
    /\ UNCHANGED board

\* one pass of the loop of GetObjectPointClouds (307-318): transform the
\* cloud of the next square and label it; after the last, return objs
ScanObject ==
    /\ scanAt = "objects"
    /\ UNCHANGED <<chessVars, colorVars>>
    /\ \/ ScanFail
       \/ LET sq == squares[Len(objs) + 1] IN
          /\ objs' = Append(objs, LabelledObj(ObjectLabel(sq.name, sq.color)))
          /\ scanAt' = IF Len(objs) + 1 < Len(squares) THEN scanAt ELSE "done"
          /\ UNCHANGED <<rank, file, squares, scanErr>>
    /\ UNCHANGED board

InitScan ==
    /\ ChessInit
    /\ fenFile = Missing
    /\ FinderIdle

NextScan ==
    \/ ScanImages
    \/ ScanSquare
    \/ ScanObject

\* one call of GetObjectPointClouds
SpecScan == InitScan /\ [][NextScan]_vars

\* ------------------------------------------------------------ properties
\* an invocation is active from the return of Lock to the return of Unlock
Active(p) == pc[p] # "lock"

\* the calls of the operation, and those of the deferred homing
OpCalls(p) == SelectSeq(calls[p], LAMBDA c : ~c.fin)
FinCalls(p) == SelectSeq(calls[p], LAMBDA c : c.fin)

\* the calls movePiece made at nesting depth d (1: the call of the loop,
\* 2: the nested call moving a piece out of the way)
DepthCalls(p, d) == SelectSeq(calls[p], LAMBDA c : c.depth = d)

CallsAt(p, d, label) ==
    SelectSeq(calls[p], LAMBDA c : c.depth = d /\ c.at = label)

Names(cs) == [i \in 1..Len(cs) |-> cs[i].call]

\* C1: at most one DoCommand invocation is active at a time and it is the
\* holder of the lock; every external call and every change of the position
\* file is made by the holder; Lock returns only when the lock is free; the
\* lock is released only after the deferred homing has run.
C1_OneActiveInvocation ==
    /\ [](\A p \in Procs : Active(p) => lock = p)
    /\ [][\A p \in Procs :
            /\ calls'[p] # calls[p] => lock = p
            /\ pc[p] = "lock" /\ pc'[p] # "lock" => lock = 0 /\ lock' = p
            /\ lock = p /\ lock' # p =>
                  /\ pc[p] = "unlock"
                  /\ FinCalls(p) # <<>>
                  /\ calls[p][Len(calls[p])].fin]_vars
    /\ [][fenFile' # fenFile => \E p \in Procs : lock = p /\ lock' = p]_vars

\* an invocation waits at Lock while another one is inside movePiece
C1_Witness ==
    \E p, q \in Procs :
        /\ p # q
        /\ lock = p
        /\ pc[p] = "mp_grab"
        /\ pc[q] = "lock"

\* C2: once a return statement of DoCommand has run, on every exit path,
\* the only calls that follow are those of the deferred goToStart; when
\* DoCommand is about to unlock and return, SetPosition has been called,
\* and Open after it if it succeeded.
C2_HomingOnEveryExit ==
    \A p \in Procs :
        /\ opRet[p] # NoRes => pc[p] \in HomePcs \cup {"deferred", "unlock"}
        /\ (opRet[p] # NoRes /\ pc[p] # "deferred") =>
            \A i \in 1..Len(calls[p]) : calls[p][i].fin
        /\ pc[p] = "unlock" =>
            LET c == calls[p]
                n == Len(c)
            IN  /\ n >= 1
                /\ c[1].fin /\ c[1].call = "SetPosition"
                /\ n > 1 => c[1].ok /\ c[2].call = "Open"

\* an invocation whose movePiece gave up on the grasp has homed and is
\* about to return
C2_Witness ==
    \E p \in Procs :
        /\ pc[p] = "unlock"
        /\ opRet[p].err = "couldn't grab"
        /\ Names(calls[p]) = <<"SetPosition", "Open", "GetPose">>

\* C3: DoCommand hands back exactly the result and error of its return
\* statement, also when the deferred homing failed.
C3_HomingFailureKeepsResult ==
    \A p \in Procs :
        pc[p] = "unlock" => ret[p] = opRet[p] /\ opRet[p] # NoRes

\* the deferred homing failed after the operation failed with its own error
C3_Witness ==
    \E p \in Procs :
        /\ pc[p] = "unlock"
        /\ warned[p]
        /\ ret[p] = Res(NilMap, "couldn't grab")

HomingCalls == <<"SetPosition", "Open", "GetPose">>
PhysicalCalls ==
    {"SetPosition", "Open", "move_gripper", "get_gripper", "Move", "Grab"}

\* C4 as stated: when the picked move is a castling move, makeAMove has
\* issued no switch, arm, motion or gripper call, no capture and no write
\* between its start and the rejection.
C4_NoCallBeforeCastleReject ==
    \A p \in Procs :
        (pc[p] = "deferred" /\ opRet[p].err = "can't handle castle") =>
            \A i \in 1..Len(OpCalls(p)) :
                OpCalls(p)[i].call \notin
                    PhysicalCalls \cup {"Capture", "WriteFile"}

\* C4 amended: a picked castling move is rejected right after the check, and
\* all makeAMove has called by then is the goToStart that opens the cycle,
\* the read of the position file and the engine: no arm or motion command,
\* no grasp, no capture, no movePiece, no write.
C4_CastleRejectedAfterHomingOnly ==
    \A p \in Procs :
        IsCastle(m[p]) /\ pc[p] # "castle_check" =>
            /\ opRet[p].err = "can't handle castle"
            /\ Names(OpCalls(p)) = HomingCalls \o <<"ReadFile", "Engine">>

\* a castling move has been rejected
C4_Witness ==
    \E p \in Procs :
        /\ IsCastle(m[p])
        /\ opRet[p].err = "can't handle castle"
        /\ pc[p] = "deferred"

\* C5 as stated: myGrab returns true exactly when Grab reported success and
\* the aperture is above 20.
C5_AcceptIffAbove20 ==
    \A p \in Procs :
        pc[p] = "mp_verify" => (grabbed[p] <=> (got[p] /\ ap[p] > 20))

\* C5 amended: myGrab returns true exactly when Grab reported success and
\* the aperture is not below 20.
C5_AcceptIffNotBelow20 ==
    \A p \in Procs :
        pc[p] = "mp_verify" => (grabbed[p] <=> (got[p] /\ ap[p] >= 20))

\* myGrab has accepted a reported grasp at an aperture of exactly 20
C5_Witness ==
    \E p \in Procs :
        pc[p] = "mp_verify" /\ got[p] /\ ap[p] = 20 /\ grabbed[p]

\* C6: no descend of the pick phase targets a height below 0.
C6_DescendNeverBelowZero ==
    \A p \in Procs :
        \A i \in 1..Len(calls[p]) :
            calls[p][i].at = "mp_descend" => calls[p][i].arg.Z >= 0

\* the attempts of the current movePiece whose grasp was not / was verified
Rejected(p, d) ==
    SelectSeq(calls[p], LAMBDA c :
        c.depth = d /\ c.call = "get_gripper" /\ c.ok /\ c.arg = Verdict(FALSE))
Accepted(p, d) ==
    SelectSeq(calls[p], LAMBDA c :
        c.depth = d /\ c.call = "get_gripper" /\ c.ok /\ c.arg = Verdict(TRUE))

PlaceLabels ==
    {"mp_place_transit", "mp_place_descend", "mp_release", "mp_place_ascend"}

\* C7: in every movePiece activation with resolved height h0 the descends
\* target h0, h0-10, h0-20, ... in this order; every descend after the first
\* directly follows a successful re-opening of the gripper; once an attempt
\* is verified after k unverified ones there were exactly k retries and k+1
\* descends, and the next command lifts to safeZ; when no attempt is verified
\* and the next height is below 0 movePiece returns the grasp error without
\* an ascend and without a command of the place phase.
C7_RetryLadder ==
    \A p \in Procs :
        stack[p] # <<>> =>
            LET d  == Len(stack[p])
                f  == Top(p)
                h0 == f.center.Z
                D  == CallsAt(p, d, "mp_descend")
                R  == CallsAt(p, d, "mp_reopen")
                A  == CallsAt(p, d, "mp_ascend")
                S  == DepthCalls(p, d)
                k  == Len(Rejected(p, d))
            IN  /\ \A i \in 1..Len(D) :
                     D[i].arg = Vec(f.center.X, f.center.Y, h0 - 10 * (i - 1))
                /\ \A j \in 2..Len(S) :
                     (S[j].at = "mp_descend" /\ S[j] # D[1]) =>
                        /\ S[j - 1].at = "mp_reopen"
                        /\ S[j - 1].call = "move_gripper"
                        /\ S[j - 1].ok
                /\ Len(Accepted(p, d)) = 1 =>
                     /\ Len(R) = k
                     /\ Len(D) = k + 1
                     /\ h0 >= 0 => h0 - 10 * k >= 0
                     /\ pc[p] = "mp_verify" \/ pc[p] = "mp_ascend" \/ Len(A) = 1
                     /\ \A i \in 1..Len(A) :
                          /\ A[i].arg = Vec(f.center.X, f.center.Y, safeZ)
                          /\ \E j \in 2..Len(S) :
                               S[j] = A[i] /\ S[j - 1].call = "get_gripper"
                /\ (Len(Accepted(p, d)) = 0 /\ k > 0 /\ h0 - 10 * k < 0) =>
                     /\ pc[p] = "mp_verify"
                          \/ (pc[p] = "mp_return" /\ err[p] = "couldn't grab")
                     /\ A = <<>>
                     /\ \A i \in 1..Len(S) : S[i].at \notin PlaceLabels
                /\ (pc[p] = "mp_return" /\ err[p] = "couldn't grab") =>
                     Len(Accepted(p, d)) = 0 /\ k > 0 /\ h0 - 10 * k < 0

\* the fourth attempt is verified after three retries from the highest
\* peak, and the piece has been lifted
C7_Witness ==
    \E p \in Procs :
        /\ Len(stack[p]) = 1
        /\ pc[p] = "mp_place_transit"
        /\ Len(Rejected(p, 1)) = 3
        /\ Len(CallsAt(p, 1, "mp_descend")) = 4
        /\ Top(p).useZ = MaxPeakZ - 30

\* what the capture says about the destination of the outermost movePiece
ToIndex(p) == findObject(data[p], stack[p][1].to)
ToEmpty(p) ==
    ToIndex(p) # 0 /\ HasSuffix(data[p][ToIndex(p)].label, EmptySuffix)
ToOccupied(p) ==
    ToIndex(p) # 0 /\ ~HasSuffix(data[p][ToIndex(p)].label, EmptySuffix)

\* C8: movePiece never nests deeper than one level; with an Empty
\* destination there is no nested call and a successful call has run one
\* pick and one place; with an occupied destination the first command of
\* the main pick comes only after exactly one nested movePiece(to, "-") has
\* made all its commands and returned nil, so a failed nested call leaves
\* the main pick unattempted.
C8_OneLevelDisplacement ==
    \A p \in Procs :
        stack[p] # <<>> =>
            LET Sub  == DepthCalls(p, 2)
                Main == DepthCalls(p, 1)
                c    == calls[p]
            IN  /\ Len(stack[p]) <= 2
                /\ Len(stack[p]) = 2 =>
                     /\ stack[p][2].from = stack[p][1].to
                     /\ stack[p][2].to = DASH
                     /\ ToOccupied(p)
                /\ ToEmpty(p) =>
                     /\ Sub = <<>>
                     /\ (pc[p] = "mp_return" /\ err[p] = "nil") =>
                          /\ Len(CallsAt(p, 1, "mp_transit")) = 1
                          /\ Len(CallsAt(p, 1, "mp_ascend")) = 1
                          /\ Len(CallsAt(p, 1, "mp_release")) = 1
                          /\ Len(CallsAt(p, 1, "mp_place_ascend")) = 1
                /\ (ToOccupied(p) /\ Main # <<>>) =>
                     /\ Len(stack[p]) = 1
                     /\ Len(CallsAt(p, 2, "mp_resolve")) = 1
                     /\ Sub[Len(Sub)].at = "mp_place_ascend"
                     /\ Sub[Len(Sub)].ok
                     /\ \A i, j \in 1..Len(c) :
                          (c[i].depth = 2 /\ c[j].depth = 1) => i < j
                /\ err[p] = "can't move piece out of the way" => Main = <<>>

\* a move onto an occupied square has completed: the piece was moved out of
\* the way, then the main pick and place ran
C8_Witness ==
    \E p \in Procs :
        /\ Len(stack[p]) = 1
        /\ pc[p] = "mp_return" /\ err[p] = "nil"
        /\ ToOccupied(p)
        /\ Len(CallsAt(p, 2, "mp_resolve")) = 1
        /\ Len(CallsAt(p, 1, "mp_release")) = 1

\* the invocation runs auto-play
AutoMode(p) ==
    /\ Active(p) /\ pc[p] # "decode"
    /\ ~(cmd[p].to # NoStr /\ cmd[p].from # NoStr)
    /\ cmd[p].go > 0

\* C9: the position file changes only in saveGame of an auto-play iteration
\* whose movePiece returned nil and whose game is the position loaded in
\* this iteration with the picked move applied, and the text written is that
\* game's; no other step of an iteration touches the file, so a failing
\* iteration leaves it as it was and what earlier iterations wrote stays.
C9_SaveOnlyAfterMove ==
    /\ [][fenFile' # fenFile =>
            \E p \in Procs :
                /\ lock = p /\ pc[p] = "save" /\ AutoMode(p)
                /\ game[p] = Append(loaded[p], m[p])
                /\ Len(CallsAt(p, 1, "mp_place_ascend")) = 1
                /\ CallsAt(p, 1, "mp_place_ascend")[1].ok
                /\ \/ fenFile' = FEN(game[p])
                   \/ opRet'[p].err = "save" /\ fenFile' = Garbage]_vars
    /\ [](\A p \in Procs :
            (AutoMode(p) /\ x[p] >= 1 /\ opRet[p].err # "save") =>
                /\ ParseFEN(fenFile).ok
                /\ Len(ParseFEN(fenFile).pos) >= x[p])

\* the second iteration of an auto-play failed in movePiece and the file
\* holds the position the first iteration wrote
C9_Witness ==
    \E p \in Procs :
        /\ AutoMode(p) /\ x[p] = 1
        /\ opRet[p].err = "couldn't grab"
        /\ fenFile = FEN(<<Mv(e2, e4, "none")>>)

\* C10: getGame hands makeAMove the starting position when there is no file
\* and the parsed position when the file holds one; a file that cannot be
\* read or parsed makes the iteration return that error having called
\* nothing but the homing and the read, and the file keeps its text.
C10_LoadMissingOrCorrupt ==
    \A p \in Procs :
        /\ pc[p] = "pick" =>
             IF fenFile = Missing
             THEN game[p] = StartPos /\ loaded[p] = StartPos
             ELSE /\ ParseFEN(fenFile).ok
                  /\ game[p] = ParseFEN(fenFile).pos
        /\ (pc[p] = "deferred"
              /\ opRet[p].err \in {"invalid fen", "error reading fen"}) =>
             /\ fenFile # Missing
             /\ opRet[p].err = "invalid fen" => ~ParseFEN(fenFile).ok
             /\ Names(OpCalls(p)) = HomingCalls \o <<"ReadFile">>
             /\ opRet[p].err = "error reading fen" => ~OpCalls(p)[4].ok

\* an auto-play found a file that is no position and is about to return
\* the error, the file untouched
C10_Witness ==
    \E p \in Procs :
        /\ pc[p] = "deferred"
        /\ opRet[p].err = "invalid fen"
        /\ fenFile = Garbage

\* the two shapes of a decoded command
MoveShape(c) == c.to # NoStr /\ c.from # NoStr
CountShape(c) == c.go > 0

AutoPcs == {"load", "pick", "castle_check", "a_capture", "apply", "save"}

\* the body of DoCommand has a decoded command and has not been left
InBody(p) ==
    /\ pc[p] \notin {"lock", "decode", "unlock"}
    /\ site[p] # "defer"
    /\ opRet[p].err # "decode"

\* the invocation runs the manual move and hands back an empty result
RunsManual(p) ==
    /\ site[p] = (IF cmd[p].n > 0 THEN "manual" ELSE "none")
    /\ pc[p] \notin AutoPcs
    /\ \A i \in 1..Len(stack[p]) : stack[p][i].ret # "auto"
    /\ \A i \in 1..Len(calls[p]) :
         calls[p][i].call \notin {"ReadFile", "Engine", "WriteFile"}
    /\ pc[p] = "deferred" =>
         /\ opRet[p].val = NilMap
         /\ opRet[p].err = "nil" => x[p] = cmd[p].n

\* the invocation runs auto-play and hands back the label of the last move
\* it executed
RunsAuto(p) ==
    /\ site[p] = "auto"
    /\ pc[p] # "m_capture"
    /\ \A i \in 1..Len(stack[p]) : stack[p][i].ret # "manual"
    /\ (pc[p] = "deferred" /\ opRet[p].err = "nil") =>
         /\ x[p] = cmd[p].go
         /\ game[p] # <<>> /\ game[p][Len(game[p])] = m[p]
         /\ fenFile = FEN(game[p])
         /\ opRet[p].val = MoveMap(MoveString(m[p]))
    /\ (pc[p] = "deferred" /\ opRet[p].err # "nil") => opRet[p].val = NilMap

\* the invocation returns the command error having called nothing
RejectsCommand(p) ==
    /\ pc[p] = "deferred"
    /\ opRet[p] = Res(NilMap, "bad cmd")
    /\ calls[p] = <<>>
    /\ stack[p] = <<>>

\* C11 as stated: a command whose move names both squares runs the manual
\* move and returns an empty result; a command with a positive play count
\* runs auto-play and returns the label of the last executed move; any other
\* command returns the command error without a capture, a movePiece call or
\* a write.
C11_DispatchByShape ==
    \A p \in Procs :
        InBody(p) =>
            /\ MoveShape(cmd[p]) => RunsManual(p)
            /\ CountShape(cmd[p]) => RunsAuto(p)
            /\ (~MoveShape(cmd[p]) /\ ~CountShape(cmd[p])) => RejectsCommand(p)

\* C11 amended: the move shape is looked at first. A command whose move
\* names both squares runs the manual move and returns an empty result,
\* whatever its play count; a command without such a move and with a
\* positive play count runs auto-play and returns the label of the last
\* executed move; any other command returns the command error without a
\* capture, a movePiece call or a write.
C11_DispatchMoveFirst ==
    \A p \in Procs :
        InBody(p) =>
            /\ MoveShape(cmd[p]) => RunsManual(p)
            /\ (~MoveShape(cmd[p]) /\ CountShape(cmd[p])) => RunsAuto(p)
            /\ (~MoveShape(cmd[p]) /\ ~CountShape(cmd[p])) => RejectsCommand(p)

\* a command with both a full move and a positive play count has run the
\* manual move and returns the empty result
C11_Witness ==
    \E p \in Procs :
        /\ pc[p] = "deferred"
        /\ MoveShape(cmd[p]) /\ CountShape(cmd[p])
        /\ x[p] = 1
        /\ opRet[p] = Res(NilMap, "nil")
        /\ Len(CallsAt(p, 1, "mp_place_ascend")) = 1

\* the invocation is inside the manual-move loop
InManual(p) == site[p] = "manual" /\ pc[p] # "deferred"

\* the record of an iteration opens with a goToStart whose calls succeeded
HomedOk(p) ==
    /\ Len(calls[p]) >= 3
    /\ Names(SubSeq(calls[p], 1, 3)) = HomingCalls
    /\ \A i \in 1..3 : calls[p][i].ok

Captures(p) == SelectSeq(calls[p], LAMBDA c : c.call = "Capture")

\* C12: the manual move with repeat count n runs n movePiece calls when
\* none fails; iteration i moves from->to for even i and to->from for odd i;
\* an iteration captures once, after its goToStart succeeded and before its
\* movePiece, and movePiece works on that capture until it returns; the
\* first failing goToStart, capture or movePiece is returned at once, so no
\* later iteration runs.
C12_ManualMoveAlternates ==
    /\ [](\A p \in Procs :
            /\ InManual(p) =>
                 /\ x[p] < cmd[p].n
                 /\ Len(Captures(p)) <= 1
                 /\ stack[p] # <<>> =>
                      /\ stack[p][1].ret = "manual"
                      /\ stack[p][1].from =
                            (IF x[p] % 2 = 0 THEN cmd[p].from ELSE cmd[p].to)
                      /\ stack[p][1].to =
                            (IF x[p] % 2 = 0 THEN cmd[p].to ELSE cmd[p].from)
                      /\ HomedOk(p)
                      /\ calls[p][4].call = "Capture" /\ calls[p][4].ok
            /\ (site[p] = "manual" /\ pc[p] = "deferred") =>
                 IF opRet[p].err = "nil"
                 THEN x[p] = cmd[p].n
                 ELSE x[p] < cmd[p].n)
    /\ [][\A p \in Procs :
            site[p] = "manual" =>
                /\ (stack[p] # <<>> /\ stack'[p] # <<>>) => data'[p] = data[p]
                /\ (stack[p] = <<>> /\ stack'[p] # <<>>) =>
                     pc[p] = "m_capture" /\ Len(stack'[p]) = 1
                /\ x'[p] = x[p] + 1 =>
                     /\ pc[p] = "mp_return" /\ Len(stack[p]) = 1
                     /\ err[p] = "nil"
                     /\ CallsAt(p, 1, "mp_place_ascend") # <<>>
                /\ (pc[p] # "deferred" /\ pc'[p] = "deferred") =>
                     \/ opRet'[p].err # "nil"
                     \/ x'[p] = cmd[p].n
                /\ (opRet[p] = NoRes /\ calls[p] # <<>>
                      /\ ~calls[p][Len(calls[p])].ok) =>
                     \/ pc[p] = "mp_return" /\ pc'[p] \in {"mp_return", "deferred"}
                     \/ pc'[p] = "deferred" /\ opRet'[p].err # "nil"]_vars

\* the second iteration of a manual move carries the piece back: it has
\* homed, captured, and its movePiece from `to` to `from` is releasing
C12_Witness ==
    \E p \in Procs :
        /\ InManual(p) /\ x[p] = 1
        /\ pc[p] = "mp_release"
        /\ stack[p] = <<[Frame(e4, e2, "manual") EXCEPT
                           !.useZ = Top(p).useZ, !.center = Top(p).center,
                           !.dest = Top(p).dest]>>

\* the invocation is inside the auto-play loop
InAuto(p) == site[p] = "auto" /\ pc[p] # "deferred"

\* the calls an iteration of auto-play has made once it stands at a step
StepCalls(label) ==
    HomingCalls \o
    (IF label = "load" THEN <<>>
     ELSE IF label = "pick" THEN <<"ReadFile">>
     ELSE IF label \in {"castle_check", "a_capture"}
     THEN <<"ReadFile", "Engine">>
     ELSE <<"ReadFile", "Engine", "Capture">>)

\* the last call failed; a read that found no file is not a failure
LastCallFailed(p) ==
    /\ calls[p] # <<>>
    /\ LET c == calls[p][Len(calls[p])] IN
       /\ ~c.ok
       /\ ~(c.call = "ReadFile" /\ fenFile = Missing)

\* C13: auto-play with a positive count runs, when nothing fails, exactly
\* that many iterations, each in the order load, pick, capture, movePiece,
\* apply, save; an iteration after the first loads the position the one
\* before it saved; the result is the label of the move of the last
\* iteration; the first failing step returns its error and no further
\* iteration runs.
C13_AutoPlayIterations ==
    /\ [](\A p \in Procs :
            /\ InAuto(p) =>
                 /\ x[p] < cmd[p].go
                 /\ pc[p] \in AutoPcs =>
                      /\ stack[p] = <<>>
                      /\ LET n == Len(StepCalls(pc[p])) IN
                         /\ Len(calls[p]) >= n
                         /\ Names(SubSeq(calls[p], 1, n)) = StepCalls(pc[p])
                         /\ \A i \in 1..n : calls[p][i].ok \/ i = 4
                         /\ pc[p] \notin {"apply", "save"} =>
                              Len(calls[p]) = n
                 /\ pc[p] \in {"apply", "save"} =>
                      /\ Len(CallsAt(p, 1, "mp_place_ascend")) = 1
                      /\ calls[p][Len(calls[p])].ok
                 /\ pc[p] \in (AutoPcs \ {"load", "save"}) \/ stack[p] # <<>> =>
                      /\ game[p] = loaded[p]
                      /\ IF fenFile = Missing THEN loaded[p] = StartPos
                         ELSE fenFile = FEN(loaded[p])
                      /\ Len(loaded[p]) >= x[p]
                 /\ pc[p] = "save" => game[p] = Append(loaded[p], m[p])
                 /\ stack[p] # <<>> =>
                      /\ stack[p][1].ret = "auto"
                      /\ stack[p][1].from = m[p].s1 /\ stack[p][1].to = m[p].s2
                      /\ Names(SubSeq(calls[p], 1, 6)) = StepCalls("apply")
            /\ (site[p] = "auto" /\ pc[p] = "deferred") =>
                 IF opRet[p].err = "nil"
                 THEN /\ x[p] = cmd[p].go
                      /\ opRet[p].val = MoveMap(MoveString(m[p]))
                      /\ game[p] = Append(loaded[p], m[p])
                      /\ fenFile = FEN(game[p])
                 ELSE x[p] < cmd[p].go /\ opRet[p].val = NilMap)
    /\ [][\A p \in Procs :
            site[p] = "auto" =>
                /\ (pc[p] = "load" /\ pc'[p] = "pick" /\ x[p] >= 1) =>
                     loaded'[p] = game[p] /\ Len(game[p]) >= x[p]
                /\ x'[p] = x[p] + 1 =>
                     pc[p] = "save" /\ fenFile' = FEN(game[p])
                /\ (pc[p] # "deferred" /\ pc'[p] = "deferred") =>
                     \/ opRet'[p].err # "nil"
                     \/ x'[p] = cmd[p].go /\ pc[p] = "save"
                /\ (opRet[p] = NoRes /\ LastCallFailed(p)) =>
                     \/ pc[p] = "mp_return" /\ pc'[p] \in {"mp_return", "deferred"}
                     \/ pc'[p] = "deferred" /\ opRet'[p].err # "nil"]_vars

\* an auto-play of two moves has run both iterations and returns the label
\* of the second move, the file holding both moves
C13_Witness ==
    \E p \in Procs :
        /\ site[p] = "auto" /\ pc[p] = "deferred"
        /\ cmd[p].go = 2 /\ x[p] = 2
        /\ opRet[p] = Res(MoveMap(e2 \o e4), "nil")
        /\ Len(ParseFEN(fenFile).pos) = 2

\* the points of the region that estimatePieceColor counts and averages
Qualifying ==
    { k \in BagToSet(region) :
        k.data = "color" /\ k.Z < MetaMaxZ(region) - minPieceSize }

RECURSIVE SumCopies(_, _)
SumCopies(S, weigh) ==
    IF S = {} THEN 0
    ELSE LET k == CHOOSE k \in S : TRUE IN
         CopiesIn(k, region) * (IF weigh THEN k.grey ELSE 1)
           + SumCopies(S \ {k}, weigh)

\* number of qualifying points, and the sum of their brightness
QualCount == SumCopies(Qualifying, FALSE)
QualBrightness == SumCopies(Qualifying, TRUE)

\* C14 as stated: with c qualifying points the result is Empty when
\* c <= 10; when c > 10 it is White if the mean brightness is at least 128
\* and Black if it is below 128.
C14_WhiteAtLeast128 ==
    pieceColor # 0 - 1 =>
        IF QualCount <= 10 THEN pieceColor = 0
        ELSE IF QualBrightness >= 128 * QualCount THEN pieceColor = 1
        ELSE pieceColor = 2

\* C14 amended: with c qualifying points the result is Empty when c <= 10;
\* when c > 10 it is White if the mean brightness is above 128 and Black if
\* it is 128 or below.
C14_WhiteAbove128 ==
    pieceColor # 0 - 1 =>
        IF QualCount <= 10 THEN pieceColor = 0
        ELSE IF QualBrightness > 128 * QualCount THEN pieceColor = 1
        ELSE pieceColor = 2

\* a region with eleven qualifying points of mean brightness exactly 128
\* has been classified Black
C14_Witness ==
    /\ pieceColor = 2
    /\ QualCount = 11
    /\ QualBrightness = 128 * QualCount
    /\ CopiesIn(Pt(0, "color", 127), region) > 0

\* the names of the 64 squares
AllSquareNames ==
    { <<f, d>> : f \in {"a", "b", "c", "d", "e", "f", "g", "h"},
                 d \in {"1", "2", "3", "4", "5", "6", "7", "8"} }

\* GetObjectPointClouds has returned objs and no error
Scanned == scanAt = "done" /\ ~scanErr

\* the objects whose label starts with the name
Matches(name) == { i \in 1..Len(objs) : HasPrefix(objs[i].label, name) }

Matching(capt, pos) == { i \in 1..Len(capt) : HasPrefix(capt[i].label, pos) }

\* v is the point coordinate resolution owes for pos in the capture
Resolves(capt, pos, v) ==
    IF pos = DASH THEN v = Vec(400, 0 - 400, 400)
    ELSE \E i \in Matching(capt, pos) :
            LET o == capt[i] IN
            IF o.label[Len(o.label)] = "0" /\ o.label[Len(o.label) - 1] = "-"
            THEN v = o.center
            ELSE /\ 2 * v.X = o.center.X + o.high.X
                 /\ 2 * v.Y = o.center.Y + o.high.Y
                 /\ v.Z = o.high.Z

PickLabels ==
    {"mp_transit", "mp_descend", "mp_grab", "mp_getgripper", "mp_verify",
     "mp_reopen", "mp_ascend", "mp_place_transit"}
PlacedLabels == {"mp_place_descend", "mp_release", "mp_place_ascend"}

\* C16: getCenterFor returns the fixed discard point for "-" whatever the
\* capture holds; for another label it fails when no object has the label
\* as prefix; for a matched object labelled "-0" it returns the centre of
\* the region; for another matched object it returns x and y halfway
\* between centre and highest point and the z of the highest point.
C16_CoordinateResolution ==
    /\ [](\A p \in Procs :
            stack[p] # <<>> =>
                LET f == Top(p) IN
                /\ pc[p] \in PickLabels \cup PlacedLabels =>
                     Resolves(data[p], f.from, f.center)
                /\ pc[p] \in PlacedLabels =>
                     /\ Resolves(data[p], f.to, f.dest)
                     /\ f.to = DASH => f.dest = Vec(400, 0 - 400, 400))
    /\ [][\A p \in Procs :
            (pc[p] \in {"mp_resolve", "mp_place_transit"} /\ stack[p] # <<>>) =>
                LET f   == Top(p)
                    pos == IF pc[p] = "mp_resolve" THEN f.from ELSE f.to
                    none == pos # DASH /\ Matching(data[p], pos) = {}
                IN  /\ none =>
                         /\ pc'[p] = "mp_return"
                         /\ err'[p] = "can't find object"
                         /\ calls'[p] = calls[p]
                    /\ ~none => calls'[p] # calls[p]]_vars

\* the source square holds a piece and the pick goes to the point halfway
\* between the centre of the region and its highest point, at the height
\* of the highest point
C16_Witness ==
    \E p \in Procs :
        /\ Len(stack[p]) = 1
        /\ pc[p] = "mp_transit"
        /\ Top(p).from = e2
        /\ data[p][1].label = <<"e", "2", "-", "1">>
        /\ Top(p).center = Vec(102, 19, MaxPeakZ)
        /\ Top(p).center # data[p][1].center

\* the descend of the place phase the innermost movePiece has made, if any
PlaceDescends(p) == CallsAt(p, Len(stack[p]), "mp_place_descend")

\* the descends of its pick phase
PickDescends(p) == CallsAt(p, Len(stack[p]), "mp_descend")

\* the innermost movePiece has made the descend of its place phase
HasPlaced(p) ==
    /\ stack[p] # <<>>
    /\ pc[p] \in {"mp_release", "mp_place_ascend", "mp_return"}
    /\ PlaceDescends(p) # <<>>

\* C17 as stated: the descend of the place phase goes to the height
\* coordinate resolution gave for `to`, whatever the height of the grasp;
\* for to = "-" it goes to the fixed deposit height.
C17_PlaceAtResolvedHeight ==
    \A p \in Procs :
        HasPlaced(p) =>
            LET f == Top(p) IN
            PlaceDescends(p)[1].arg =
                Vec(f.dest.X, f.dest.Y,
                    IF f.to = DASH THEN discardZ ELSE f.dest.Z)

\* C17 amended: for to # "-" the descend of the place phase goes, above the
\* point resolved for `to`, to the height of the last descend of the pick
\* phase, the one whose grasp was verified; for to = "-" it goes to the
\* fixed deposit height.
C17_PlaceAtGraspHeight ==
    \A p \in Procs :
        HasPlaced(p) =>
            LET f == Top(p)
                D == PickDescends(p)
            IN  /\ Len(PlaceDescends(p)) = 1
                /\ D # <<>>
                /\ PlaceDescends(p)[1].arg =
                     Vec(f.dest.X, f.dest.Y,
                         IF f.to = DASH THEN discardZ ELSE D[Len(D)].arg.Z)
                /\ getCenterFor(data[p], f.to).v = f.dest

\* a piece grasped after one retry has been lowered onto an Empty square to
\* the height of the grasp, which is not the height resolved for the square
C17_Witness ==
    \E p \in Procs :
        /\ HasPlaced(p)
        /\ pc[p] = "mp_release"
        /\ Top(p).to = e4
        /\ Len(PickDescends(p)) = 2
        /\ PlaceDescends(p)[1].arg.Z = MaxPeakZ - graspStep
        /\ Top(p).dest.Z = 0

\* a square the outermost movePiece of the invocation was handed has no
\* object in the capture
SquareMissing(p) ==
    LET f == stack[p][1] IN
    \/ f.from # DASH /\ Matching(data[p], f.from) = {}
    \/ f.to # DASH /\ Matching(data[p], f.to) = {}

MotionOrGripper == {"Move", "move_gripper", "Grab", "get_gripper"}

\* C18: when `from` or `to` (other than "-") has no object in the capture,
\* movePiece issues no motion or gripper command during the call, nested
\* call included, and returns an error; this also when `to` is there and
\* holds a piece while `from` is missing.
C18_NoCommandOnMissingSquare ==
    \A p \in Procs :
        (stack[p] # <<>> /\ SquareMissing(p)) =>
            /\ \A i \in 1..Len(calls[p]) :
                 calls[p][i].depth >= 1 =>
                     calls[p][i].call \notin MotionOrGripper
            /\ pc[p] = "mp_return" => err[p] = "can't find object"

\* the motion commands of the movePiece call of the current iteration, the
\* nested call included, in the order they were issued
Motions(p) ==
    SelectSeq(calls[p], LAMBDA c : c.call = "Move" /\ c.depth >= 1)

SameXY(a, b) == a.arg.X = b.arg.X /\ a.arg.Y = b.arg.Y

\* C19: of two consecutive motion commands of a movePiece call with
\* different (x, y), both go to safeZ; a command to another height than
\* safeZ has the (x, y) of the command before it.
C19_TravelAtSafeHeight ==
    \A p \in Procs :
        LET M == Motions(p) IN
        /\ \A i \in 2..Len(M) :
             ~SameXY(M[i], M[i - 1]) =>
                 M[i].arg.Z = safeZ /\ M[i - 1].arg.Z = safeZ
        /\ \A i \in 1..Len(M) :
             M[i].arg.Z # safeZ => i > 1 /\ SameXY(M[i], M[i - 1])

\* a movePiece that first moved a piece out of the way has returned nil:
\* the gripper travelled from `to` to the discard point, from there to
\* `from`, and from `from` to `to`
C19_Witness ==
    \E p \in Procs :
        LET M == Motions(p) IN
        /\ pc[p] = "mp_return" /\ err[p] = "nil" /\ Len(stack[p]) = 1
        /\ Len(M) >= 12
        /\ Cardinality({ i \in 2..Len(M) : ~SameXY(M[i], M[i - 1]) }) = 3
        /\ \E i \in 1..Len(M) : M[i].arg = Vec(400, 0 - 400, discardZ)

\* the grasp-retry loop of movePiece (343-367)
LoopLabels ==
    {"mp_descend", "mp_grab", "mp_getgripper", "mp_verify", "mp_reopen"}
InLoop(p) == pc[p] \in LoopLabels

\* C20: the grasp-retry loop ends, whatever the gripper reports: in a
\* verified grasp, in the grasp error or in the error of a failed call.
\* Started at a resolved height h0 >= 0 it makes at most floor(h0/10) + 1
\* descends, exactly that many when it ends in the grasp error, and every
\* descend after the first goes exactly 10 lower than the one before.
C20_RetryLoopTerminates ==
    /\ [](\A p \in Procs :
            stack[p] # <<>> =>
                LET f  == Top(p)
                    h0 == f.center.Z
                    D  == PickDescends(p)
                IN  /\ \A i \in 2..Len(D) :
                         D[i].arg.Z = D[i - 1].arg.Z - 10
                    /\ (D # <<>> /\ h0 >= 0) => Len(D) <= (h0 \div 10) + 1
                    /\ (pc[p] = "mp_return" /\ err[p] = "couldn't grab"
                          /\ h0 >= 0) =>
                         Len(D) = (h0 \div 10) + 1
                    /\ (InLoop(p) /\ pc[p] # "mp_descend") => D # <<>>)
    /\ [][\A p \in Procs :
            (InLoop(p) /\ ~InLoop(p)') =>
                \/ pc'[p] = "mp_ascend" /\ grabbed[p]
                \/ pc'[p] = "mp_return" /\ err'[p] # "nil"]_vars
    /\ []<>(\A p \in Procs : ~InLoop(p))

\* the gripper never reported a verified grasp: started at the highest
\* peak the loop has ended in the grasp error after floor(h0/10) + 1
\* descends
C20_Witness ==
    \E p \in Procs :
        /\ Len(stack[p]) = 1
        /\ pc[p] = "mp_return" /\ err[p] = "couldn't grab"
        /\ Top(p).center.Z = MaxPeakZ
        /\ Len(PickDescends(p)) = (MaxPeakZ \div 10) + 1
        /\ Len(Accepted(p, 1)) = 0

\* the calls of movePiece that failed: a motion, an opening of the gripper,
\* a grasp or an aperture query
FailedIn(p) ==
    { i \in 1..Len(calls[p]) :
        /\ calls[p][i].depth >= 1
        /\ calls[p][i].call \in MotionOrGripper
        /\ ~calls[p][i].ok }

\* the error movePiece returns for a failed call
ErrorsOf(c) ==
    IF c.depth = 2 THEN {"can't move piece out of the way"}
    ELSE IF c.call = "Move" THEN {"motion"}
    ELSE IF c.call = "move_gripper" THEN {"arm"}
    ELSE IF c.call = "Grab" THEN {"gripper"}
    ELSE {"arm", "get_gripper weird"}

\* C21: a motion, gripper-open, grasp or aperture-query call that fails
\* inside movePiece is the last call movePiece makes, also when a grasp was
\* verified before; movePiece returns its error and DoCommand returns it;
\* after that the invocation calls nothing but the deferred goToStart, and
\* an auto-play iteration neither applies the move nor writes the file.
C21_FailureAbortsWithoutRollback ==
    /\ [](\A p \in Procs :
            \A i \in FailedIn(p) :
                /\ i = Len(calls[p])
                /\ pc[p] \in {"mp_return", "deferred"}
                /\ pc[p] = "mp_return" => err[p] # "nil"
                /\ (pc[p] = "mp_return" /\ Len(stack[p]) = calls[p][i].depth)
                     => err[p] \in ErrorsOf([calls[p][i] EXCEPT !.depth = 1])
                /\ pc[p] = "deferred" =>
                     /\ opRet[p].val = NilMap
                     /\ opRet[p].err \in ErrorsOf(calls[p][i])
                     /\ site[p] = "auto" => game[p] = loaded[p])
    /\ [][\A p \in Procs :
            /\ FailedIn(p) # {} =>
                 /\ fenFile' = fenFile
                 /\ calls'[p] = calls[p] \/ calls'[p] = <<>>
                 /\ pc'[p] \in {"mp_return", "deferred", "home_switch"}
            /\ (opRet[p].err \in {"motion", "arm", "gripper",
                                   "get_gripper weird",
                                   "can't move piece out of the way"}
                  /\ lock = p) =>
                 /\ fenFile' = fenFile
                 /\ \A j \in 1..Len(calls'[p]) : calls'[p][j].fin]_vars

\* in auto-play the travel to the destination failed while the gripper
\* held the piece: the error is returned, the move is not applied and the
\* file is as it was loaded
C21_Witness ==
    \E p \in Procs :
        /\ pc[p] = "deferred" /\ site[p] = "auto"
        /\ opRet[p] = Res(NilMap, "motion")
        /\ Len(Accepted(p, 1)) = 1
        /\ calls[p][Len(calls[p])].at = "mp_place_transit"
        /\ ~calls[p][Len(calls[p])].ok
        /\ game[p] = loaded[p]
        /\ fenFile = FEN(loaded[p])

\* what estimatePieceColor has counted and added up over the region
Counted ==
    Iterate(BagToSet(region), region, MetaMaxZ(region) - minPieceSize)

\* the points with a colour in the band of minPieceSize below the maximum
InBand ==
    { k \in BagToSet(region) :
        k.data = "color" /\ k.Z >= MetaMaxZ(region) - minPieceSize }

\* C22 as stated: the points counted and averaged are exactly the points
\* with a colour whose z is at least the region's maximum z minus 20;
\* points more than 20 below the maximum are left out.
C22_CountsTopBand ==
    pieceColor # 0 - 1 =>
        /\ Counted.count = SumCopies(InBand, FALSE)
        /\ Counted.totalR = SumCopies(InBand, TRUE)
        /\ Counted.totalG = SumCopies(InBand, TRUE)
        /\ Counted.totalB = SumCopies(InBand, TRUE)
        /\ pieceColor = 0 <=> SumCopies(InBand, FALSE) <= minPoints

\* C22 amended: the points counted and averaged are exactly the points
\* with a colour whose z is below the region's maximum z minus 20; points
\* within 20 of the maximum, the one exactly 20 below it included, are
\* left out of the count and of the average.
C22_CountsBelowBand ==
    pieceColor # 0 - 1 =>
        /\ Counted.count = QualCount
        /\ Counted.totalR = QualBrightness
        /\ Counted.totalG = QualBrightness
        /\ Counted.totalB = QualBrightness
        /\ \A k \in InBand : k \notin Qualifying
        /\ pieceColor = 0 <=> QualCount <= minPoints

\* eleven points of brightness 128 lie 21 below a bright point at the
\* maximum: the region is Black, the bright point was not averaged in
C22_Witness ==
    /\ pieceColor = 2
    /\ CopiesIn(Pt(0, "color", 128), region) = 11
    /\ CopiesIn(Pt(minPieceSize + 1, "color", 255), region) = 1
    /\ Counted.count = 11

====
